---- MODULE Spec2Model ----
(***************************************************************************)
(* Model of the radar TUI main loop (apps/src/radar.rs): the polling loop, *)
(* the line ingestor, the key handler and the Airplanes-tab table render.  *)
(* The track store (apps::Airplanes) and the frame decoder live outside    *)
(* radar.rs; they are modelled from their contract.                        *)
(*                                                                         *)
(* Option<T> is modelled as a sequence: <<>> is None and <<x>> is Some(x). *)
(* Latitudes, longitudes and the scale are f64 values with their IEEE 754   *)
(* rounding.  A track keeps idle, the time since its last report           *)
(* (now - last_seen), instead of the two timestamps.                       *)
(***************************************************************************)
EXTENDS Integers, Sequences, FiniteSets, TLC

\* ------------------------------------------------------------------ bounds
MaxIdle == 2
MaxMsgs == 2
MaxCoverage == 2
MaxPan == 1
MaxScale == 13
MaxSelected == 2

\* ------------------------------------------------------- program constants
\* stand-in for 2^64, the modulus of usize arithmetic
UsizeModulus == 1073741824
\* staleness threshold of prune, in model time units
StalenessThreshold == 1
\* An f64 is held exactly: a sign and a magnitude counted in units of 2^-60,
\* split into three limbs of 29 bits (h the most significant).  Zero has
\* neg = FALSE.
F64Base == 536870912
F64(neg, h, m, l) == [neg |-> neg, h |-> h, m |-> m, l |-> l]
\* opts.lat / opts.long, the configured antenna position: 64.0 and -74.0
OptsLat == F64(FALSE, 256, 0, 0)
OptsLong == F64(TRUE, 296, 0, 0)
\* original_scale = 1.2
original_scale == F64(FALSE, 4, 429496729, 322122496)
\* the literal 0.2 of the zoom-in guard
ScaleFloor == F64(FALSE, 0, 429496729, 322122560)
\* the literal 0.1 of the zoom steps
ScaleStep == F64(FALSE, 0, 214748364, 429496736)
\* the literals 0.005 and 0.03 of the pan steps
LatStep == F64(FALSE, 0, 10737418, 128849019)
LongStep == F64(FALSE, 0, 64424509, 236223200)

None == << >>
Some(x) == << x >>

Addresses == {1, 2}
Callsigns == {"UAL123"}
Velocities == {[speed |-> 450, vert_speed |-> 0 - 64]}
\* a resolved position: 40.7, -73.9, 10000 ft
Positions ==
    {[latitude |-> F64(FALSE, 162, 429496729, 322125824),
      longitude |-> F64(TRUE, 295, 322122547, 107380736),
      altitude |-> 10000]}

QuitTcp == "TCP connection aborted, quitting radar tui"
QuitUser == "user requested quit"

Tabs == {"Map", "Coverage", "Airplanes"}

KeyCodes == {"F1", "F2", "F3", "Tab", "q", "-", "+", "Up", "Down", "Left",
             "Right", "Enter", "Other"}

VARIABLES
    pc,                 \* position of main in the loop body
    overflow_checks,    \* build profile: TRUE when integer overflow panics
    raw_mode,           \* terminal raw mode, enabled at startup
    printed,            \* Option: the reason printed on exit
    input,              \* the line buffer
    quit,               \* Option: the quit reason
    tab_selection,
    settings,           \* Settings { scale, lat, long }
    airplanes_state,    \* TableState.selected(): Option<usize>
    adsb_airplanes,     \* Airplanes: address -> AirplaneState
    coverage_airplanes, \* Vec of positions
    rows,               \* rows of the table drawn by the last render
    last_read,          \* outcome of this tick's read_line
    last_frame,         \* Option: the frame the decoder returned this tick
    last_key,           \* Option: the key handled by the last poll
    pruned,             \* the tracks this tick's prune removed: address
                        \* and position
    num_frames,         \* per address: ADS-B frames decoded while tracked
    num_reports         \* per address: of those, the identification,
                        \* velocity and position reports

vars == << pc, overflow_checks, raw_mode, printed, input, quit, tab_selection,
           settings, airplanes_state, adsb_airplanes, coverage_airplanes,
           rows, last_read, last_frame, last_key, pruned, num_frames,
           num_reports >>

\* ------------------------------------------------------------ usize maths
\* a - b on usize: panics under overflow checks, wraps otherwise
UsizeSub(a, b) ==
    IF a >= b THEN [panic |-> FALSE, val |-> a - b]
    ELSE IF overflow_checks THEN [panic |-> TRUE, val |-> 0]
    ELSE [panic |-> FALSE, val |-> (a - b) % UsizeModulus]

\* a + b on usize
UsizeAdd(a, b) ==
    IF a + b < UsizeModulus THEN [panic |-> FALSE, val |-> a + b]
    ELSE IF overflow_checks THEN [panic |-> TRUE, val |-> 0]
    ELSE [panic |-> FALSE, val |-> (a + b) % UsizeModulus]

\* -------------------------------------------------------------- f64 maths
F64Zero == F64(FALSE, 0, 0, 0)

IsZero(x) == x.h = 0 /\ x.m = 0 /\ x.l = 0

\* the sign is dropped from a zero
Canon(x) == IF IsZero(x) THEN F64Zero ELSE x

\* exact sum of two magnitudes, with the sign of a
MagAdd(a, b) ==
    LET l == a.l + b.l
        m == a.m + b.m + (l \div F64Base)
    IN  F64(a.neg, a.h + b.h + (m \div F64Base), m % F64Base, l % F64Base)

\* exact difference of two magnitudes, a not below b, with the sign of a
MagSub(a, b) ==
    LET bl == IF a.l < b.l THEN 1 ELSE 0
        m == a.m - b.m - bl
        bm == IF m < 0 THEN 1 ELSE 0
    IN  F64(a.neg, a.h - b.h - bm, m + bm * F64Base,
            a.l - b.l + bl * F64Base)

\* |a| < |b|
MagLt(a, b) ==
    \/ a.h < b.h
    \/ a.h = b.h /\ a.m < b.m
    \/ a.h = b.h /\ a.m = b.m /\ a.l < b.l

\* the largest power of two that is at most n (1 for n = 0)
RECURSIVE Pow2Floor(_)
Pow2Floor(n) == IF n < 2 THEN 1 ELSE 2 * Pow2Floor(n \div 2)

\* spacing of the f64 values around a, in units of 2^-60: the significand
\* keeps 53 bits
F64Ulp(a) ==
    IF a.h >= 1 THEN 64 * Pow2Floor(a.h) ELSE Pow2Floor(a.m \div 8388608)

\* round an exact value to the nearest f64, ties to the even significand
F64Round(a) ==
    LET p == F64Ulp(a)
        r == a.l % p
        q == a.l \div p
        up == (2 * r > p) \/ (2 * r = p /\ q % 2 = 1)
        down == [a EXCEPT !.l = a.l - r]
    IN  Canon(IF up THEN MagAdd(down, F64(FALSE, 0, 0, p)) ELSE down)

\* x + y on f64
F64Add(x, y) ==
    IF x.neg = y.neg THEN F64Round(MagAdd(x, y))
    ELSE IF MagLt(x, y) THEN F64Round(MagSub(y, x))
    ELSE F64Round(MagSub(x, y))

F64Neg(x) == Canon([x EXCEPT !.neg = ~x.neg])

\* x - y on f64
F64Sub(x, y) == F64Add(x, F64Neg(y))

\* x > y on f64
F64Gt(x, y) ==
    IF x.neg # y.neg THEN y.neg
    ELSE IF x.neg THEN MagLt(x, y)
    ELSE MagLt(y, x)

\* ---------------------------------------------------- track store contract
\* AirplaneState::default() as entered by the first report of an address
DefaultState ==
    [num_messages |-> 0, callsign |-> None, speed |-> None,
     vert_speed |-> None, position |-> None, idle |-> 0]

EntryOrDefault(store, icao) ==
    IF icao \in DOMAIN store THEN store[icao] ELSE DefaultState

WithTrack(store, icao, tr) ==
    [a \in (DOMAIN store) \cup {icao} |-> IF a = icao THEN tr ELSE store[a]]

\* record_message_count: create if absent, count the message, refresh last_seen
incr_messages(store, icao) ==
    WithTrack(store, icao,
        [EntryOrDefault(store, icao) EXCEPT !.num_messages = @ + 1, !.idle = 0])

add_identification(store, icao, cn) ==
    WithTrack(store, icao,
        [EntryOrDefault(store, icao) EXCEPT !.callsign = Some(cn)])

add_airborne_velocity(store, icao, vel) ==
    WithTrack(store, icao,
        [EntryOrDefault(store, icao) EXCEPT
            !.speed = Some(vel.speed), !.vert_speed = Some(vel.vert_speed)])

\* altitude carries the position the decoder resolves from this frame, if any;
\* a resolved position is overwritten by a newer one and never rolled back
add_altitude(store, icao, altitude) ==
    WithTrack(store, icao,
        [EntryOrDefault(store, icao) EXCEPT
            !.position = IF altitude = None THEN @ ELSE altitude])

\* resolved_position(address)
lat_long_altitude(store, key) ==
    IF key \in DOMAIN store THEN store[key].position ELSE None

\* prune(now, T): drop every track idle for longer than T
prune(store, threshold) ==
    [a \in {k \in DOMAIN store : store[k].idle <= threshold} |-> store[a]]

\* the clock advances by d: every track has been idle for d longer
Age(store, d) == [a \in DOMAIN store |-> [store[a] EXCEPT !.idle = @ + d]]

\* adsb_airplanes.0.keys(): the addresses in the map's iteration order
RECURSIVE SortedSeq(_)
SortedSeq(S) ==
    IF S = {} THEN << >>
    ELSE LET m == CHOOSE x \in S : \A y \in S : x <= y
         IN  << m >> \o SortedSeq(S \ {m})

keys(store) == SortedSeq(DOMAIN store)

\* Iterator::nth on keys(): Option of the address at a zero-based index
nth(ks, n) == IF n < Len(ks) THEN Some(ks[n + 1]) ELSE None

RECURSIVE PositionsOf(_, _)
PositionsOf(store, ks) ==
    IF ks = << >> THEN << >>
    ELSE LET p == store[Head(ks)].position
         IN  (IF p = None THEN << >> ELSE << p[1] >>)
                 \o PositionsOf(store, Tail(ks))

\* all_resolved_positions(): one entry per track with a resolved position
all_lat_long_altitude(store) == PositionsOf(store, keys(store))

\* ------------------------------------------------------------ feed decoding
\* characters of the feed alphabet used by the model
HexChars == {"0", "1"}

HexVal(c) == IF c = "1" THEN 1 ELSE 0

\* a payload wrapped in the delimiter pair "*" ... ";" and the line end
Wrap(payload) == << "*" >> \o payload \o << ";", "\n" >>

\* the non-empty lines read_line returns in the model: two lines too short
\* for the delimiters, then payloads that are empty, of odd length, not hex,
\* all zero and not all zero
Lines ==
    { << "\n" >>, << ";", "\n" >>,
      Wrap(<< >>), Wrap(<< "0" >>), Wrap(<< "g", "1" >>),
      Wrap(<< "0", "0", "0", "0" >>), Wrap(<< "0", "0", "1", "0" >>) }

\* input[1..len - 2]: Option of the slice, None when the slicing panics
StripDelimiters(line) ==
    LET len == Len(line)
        end == UsizeSub(len, 2)
    IN  IF end.panic \/ 1 > end.val \/ end.val > len THEN None
        ELSE Some(SubSeq(line, 2, end.val))

\* hex::decode: Option of the bytes, None on odd length or a non-hex digit
RECURSIVE HexBytes(_)
HexBytes(hex) ==
    IF hex = << >> THEN << >>
    ELSE << 16 * HexVal(hex[1]) + HexVal(hex[2]) >> \o HexBytes(Tail(Tail(hex)))

hex_decode(hex) ==
    IF Len(hex) % 2 # 0 \/ \E i \in 1..Len(hex) : hex[i] \notin HexChars
    THEN None
    ELSE Some(HexBytes(hex))

\* mutant: the zero check is dropped
AllZero_Dropped(bytes) == FALSE

\* bytes.par_iter().all(|&b| b == 0)
AllZero(bytes) == \A i \in 1..Len(bytes) : bytes[i] = 0

\* what Frame::from_bytes can hand back for a buffer
MEs ==
    {[kind |-> "AircraftIdentification", cn |-> << c >>, vel |-> << >>, alt |-> << >>]
        : c \in Callsigns}
    \cup {[kind |-> "AirborneVelocity", cn |-> << >>, vel |-> << v >>, alt |-> << >>]
        : v \in Velocities}
    \cup {[kind |-> "AirbornePositionBaroAltitude", cn |-> << >>, vel |-> << >>,
            alt |-> a] : a \in { << >> } \cup {<< p >> : p \in Positions}}
    \cup {[kind |-> "AirbornePositionGNSSAltitude", cn |-> << >>, vel |-> << >>,
            alt |-> << p >>] : p \in Positions}
    \cup {[kind |-> "Other", cn |-> << >>, vel |-> << >>, alt |-> << >>]}

NoME == [kind |-> "Other", cn |-> << >>, vel |-> << >>, alt |-> << >>]

NoFrame == [df |-> "Err", icao |-> 0, me |-> NoME]

Frames ==
    {NoFrame, [df |-> "NotADSB", icao |-> 0, me |-> NoME]}
    \cup {[df |-> "ADSB", icao |-> a, me |-> m] : a \in Addresses, m \in MEs}

\* mutant: the message is counted inside the match arms and the velocity arm
\* forgets to
ApplyFrame_VelocityUncounted(store, frame) ==
    IF frame.df # "ADSB" THEN store
    ELSE LET me == frame.me
         IN  CASE me.kind = "AircraftIdentification" ->
                    add_identification(incr_messages(store, frame.icao),
                                       frame.icao, me.cn[1])
               [] me.kind = "AirborneVelocity" ->
                    add_airborne_velocity(store, frame.icao, me.vel[1])
               [] me.kind \in {"AirbornePositionGNSSAltitude",
                               "AirbornePositionBaroAltitude"} ->
                    add_altitude(incr_messages(store, frame.icao),
                                 frame.icao, me.alt)
               [] OTHER -> incr_messages(store, frame.icao)

\* lines 190-207: the effect of a decoded frame on the track store
ApplyFrame(store, frame) ==
    IF frame.df # "ADSB" THEN store
    ELSE LET counted == incr_messages(store, frame.icao)
             me == frame.me
         IN  CASE me.kind = "AircraftIdentification" ->
                    add_identification(counted, frame.icao, me.cn[1])
               [] me.kind = "AirborneVelocity" ->
                    add_airborne_velocity(counted, frame.icao, me.vel[1])
               [] me.kind \in {"AirbornePositionGNSSAltitude",
                               "AirbornePositionBaroAltitude"} ->
                    add_altitude(counted, frame.icao, me.alt)
               [] OTHER -> counted

\* lines 176-207: one line through slicing, hex decoding, the zero check and
\* the decoder; pc is where the loop goes next
Ingest(store, line, frame) ==
    LET hex == StripDelimiters(line)
    IN  IF hex = None
        THEN [pc |-> "panic", store |-> store, outcome |-> "slice"]
        ELSE LET bytes == hex_decode(hex[1])
             IN  IF bytes = None
                 THEN [pc |-> "top", store |-> store, outcome |-> "badhex"]
                 ELSE IF AllZero(bytes[1])
                 THEN [pc |-> "top", store |-> store, outcome |-> "zero"]
                 ELSE [pc |-> "tui", store |-> ApplyFrame(store, frame),
                       outcome |-> frame.df]

\* ------------------------------------------------------------- rendering
\* lines 466-473: the selection check of build_tab_airplanes
ClampSelected(rows_len, selected) ==
    IF selected = None THEN [panic |-> FALSE, selected |-> selected]
    ELSE LET last == UsizeSub(rows_len, 1)
         IN  IF last.panic THEN [panic |-> TRUE, selected |-> selected]
             ELSE IF selected[1] > last.val
             THEN [panic |-> FALSE, selected |-> Some(last.val)]
             ELSE [panic |-> FALSE, selected |-> selected]

\* ------------------------------------------------------------ key handling
\* mutant: the Airplanes arm steps back to Coverage
NextTab_NoWrap(tab) ==
    CASE tab = "Map" -> "Coverage"
      [] tab = "Coverage" -> "Airplanes"
      [] tab = "Airplanes" -> "Coverage"

\* lines 111-119
NextTab(tab) ==
    CASE tab = "Map" -> "Coverage"
      [] tab = "Coverage" -> "Airplanes"
      [] tab = "Airplanes" -> "Map"

MapOrCoverage(tab) == tab \in {"Map", "Coverage"}

\* the view state the key handler reads and writes
ViewState ==
    [tab |-> tab_selection, quit |-> quit, settings |-> settings,
     selected |-> airplanes_state, panic |-> FALSE]

\* lines 291-297
KeyUpAirplanes(v) ==
    IF v.selected = None THEN [v EXCEPT !.selected = Some(0)]
    ELSE LET r == UsizeSub(v.selected[1], 1)
         IN  IF r.panic THEN [v EXCEPT !.panic = TRUE]
             ELSE [v EXCEPT !.selected = Some(r.val)]

\* lines 298-304
KeyDownAirplanes(v) ==
    IF v.selected = None THEN [v EXCEPT !.selected = Some(0)]
    ELSE LET r == UsizeAdd(v.selected[1], 1)
         IN  IF r.panic THEN [v EXCEPT !.panic = TRUE]
             ELSE [v EXCEPT !.selected = Some(r.val)]

\* mutant: the jump always takes the first row
KeyEnterAirplanes_FirstRow(v, store) ==
    IF v.selected = None THEN v
    ELSE LET key == nth(keys(store), 0)
         IN  IF key = None THEN [v EXCEPT !.panic = TRUE]
             ELSE LET pos == lat_long_altitude(store, key[1])
                  IN  IF pos = None THEN v
                      ELSE [v EXCEPT !.settings.lat = pos[1].latitude,
                                     !.settings.long = pos[1].longitude,
                                     !.tab = "Map"]

\* mutant: the tab switches whether or not the track has a position
KeyEnterAirplanes_AlwaysSwitch(v, store) ==
    IF v.selected = None THEN v
    ELSE LET key == nth(keys(store), v.selected[1])
         IN  IF key = None THEN [v EXCEPT !.panic = TRUE]
             ELSE LET pos == lat_long_altitude(store, key[1])
                  IN  IF pos = None THEN [v EXCEPT !.tab = "Map"]
                      ELSE [v EXCEPT !.settings.lat = pos[1].latitude,
                                     !.settings.long = pos[1].longitude,
                                     !.tab = "Map"]

\* lines 305-315
KeyEnterAirplanes(v, store) ==
    IF v.selected = None THEN v
    ELSE LET key == nth(keys(store), v.selected[1])
         IN  IF key = None THEN [v EXCEPT !.panic = TRUE]
             ELSE LET pos == lat_long_altitude(store, key[1])
                  IN  IF pos = None THEN v
                      ELSE [v EXCEPT !.settings.lat = pos[1].latitude,
                                     !.settings.long = pos[1].longitude,
                                     !.tab = "Map"]

\* mutant: the reset forgets the scale
KeyEnterMap_KeepsScale(v) ==
    [v EXCEPT !.settings.lat = OptsLat, !.settings.long = OptsLong]

\* lines 285-289
KeyEnterMap(v) ==
    [v EXCEPT !.settings = [scale |-> original_scale,
                            lat |-> OptsLat, long |-> OptsLong]]

\* lines 267-317: the match on (code, tab_selection)
KeyEffect(code, v, store) ==
    CASE code = "F1" -> [v EXCEPT !.tab = "Map"]
      [] code = "F2" -> [v EXCEPT !.tab = "Coverage"]
      [] code = "F3" -> [v EXCEPT !.tab = "Airplanes"]
      [] code = "Tab" -> [v EXCEPT !.tab = NextTab(v.tab)]
      [] code = "q" -> [v EXCEPT !.quit = Some(QuitUser)]
      [] code = "-" /\ MapOrCoverage(v.tab) ->
            [v EXCEPT !.settings.scale = F64Add(@, ScaleStep)]
      [] code = "+" /\ MapOrCoverage(v.tab) ->
            IF F64Gt(v.settings.scale, ScaleFloor)
            THEN [v EXCEPT !.settings.scale = F64Sub(@, ScaleStep)]
            ELSE v
      [] code = "Up" /\ MapOrCoverage(v.tab) ->
            [v EXCEPT !.settings.lat = F64Add(@, LatStep)]
      [] code = "Down" /\ MapOrCoverage(v.tab) ->
            [v EXCEPT !.settings.lat = F64Sub(@, LatStep)]
      [] code = "Left" /\ MapOrCoverage(v.tab) ->
            [v EXCEPT !.settings.long = F64Sub(@, LongStep)]
      [] code = "Right" /\ MapOrCoverage(v.tab) ->
            [v EXCEPT !.settings.long = F64Add(@, LongStep)]
      [] code = "Enter" /\ MapOrCoverage(v.tab) -> KeyEnterMap(v)
      [] code = "Up" /\ v.tab = "Airplanes" -> KeyUpAirplanes(v)
      [] code = "Down" /\ v.tab = "Airplanes" -> KeyDownAirplanes(v)
      [] code = "Enter" /\ v.tab = "Airplanes" -> KeyEnterAirplanes(v, store)
      [] OTHER -> v

\* ------------------------------------------------------------------- bounds
\* centres the view can be moved to without panning
Anchors ==
    {[lat |-> OptsLat, long |-> OptsLong]}
        \cup {[lat |-> p.latitude, long |-> p.longitude] : p \in Positions}

\* k times the magnitude of x, exact
RECURSIVE Times(_, _)
Times(k, x) == IF k = 0 THEN F64Zero ELSE MagAdd(Times(k - 1, x), x)

\* |x - y| is less than half of limit
Within(x, y, limit) == MagLt(Times(2, F64Sub(x, y)), limit)

\* twice the scale, and twice the pan distances, that are explored
ScaleLimit == Times(2 * MaxScale + 1, ScaleStep)
LatLimit == Times(2 * MaxPan + 1, LatStep)
LongLimit == Times(2 * MaxPan + 1, LongStep)

\* zoom is explored up to MaxScale steps of 0.1, at the anchors; panning at
\* the original scale and along one axis at a time
SettingsInBounds(st) ==
    /\ MagLt(Times(2, st.scale), ScaleLimit)
    /\ \E a \in Anchors :
          /\ Within(st.lat, a.lat, LatLimit)
          /\ Within(st.long, a.long, LongLimit)
          /\ Cardinality({i \in 1..3 :
                << st.scale # original_scale, st.lat # a.lat,
                   st.long # a.long >>[i]}) <= 1

\* the cursor can run away from an empty table only this far
SelectedInBounds(selected) ==
    IF selected = None THEN TRUE
    ELSE selected[1] <= MaxSelected \/ selected[1] = UsizeModulus - 1

\* ----------------------------------------------------------------- actions
Init ==
    /\ pc = "top"
    /\ overflow_checks \in BOOLEAN
    /\ raw_mode = TRUE
    /\ printed = None
    /\ input = << >>
    /\ quit = None
    /\ tab_selection = "Map"
    /\ settings = [scale |-> original_scale, lat |-> OptsLat, long |-> OptsLong]
    /\ airplanes_state = None
    /\ adsb_airplanes = << >>
    /\ coverage_airplanes = << >>
    /\ rows = << >>
    /\ last_read = "none"
    /\ last_frame = None
    /\ last_key = None
    /\ pruned = {}
    /\ num_frames = [a \in Addresses |-> 0]
    /\ num_reports = [a \in Addresses |-> 0]

\* lines 163-167: the quit check at the top of the loop
LoopExit ==
    /\ pc = "top"
    /\ quit # None
    /\ printed' = quit
    /\ pc' = "done"
    /\ UNCHANGED << overflow_checks, raw_mode, input, quit, tab_selection,
                    settings, airplanes_state, adsb_airplanes,
                    coverage_airplanes, rows, last_read, last_frame, last_key,
                    pruned, num_frames, num_reports >>

\* the time the bounded read can take, in clock ticks
Delays ==
    IF adsb_airplanes = << >> THEN {0}
    ELSE {d \in {0, 1} :
            \A a \in DOMAIN adsb_airplanes : adsb_airplanes[a].idle + d <= MaxIdle}

\* lines 163-170: no quit is pending and read_line returns Err, a timeout
ReadTimeout ==
    /\ pc = "top"
    /\ quit = None
    /\ \E d \in Delays : adsb_airplanes' = Age(adsb_airplanes, d)
    /\ input' = << >>
    /\ last_read' = "timeout"
    /\ last_frame' = None
    /\ last_key' = None
    /\ pruned' = {}
    /\ pc' = "tui"
    /\ UNCHANGED << overflow_checks, raw_mode, printed, quit, tab_selection,
                    settings, airplanes_state, coverage_airplanes, rows,
                    num_frames, num_reports >>

\* mutant: the zero-length read sets quit and forgets to continue
ReadClosed_NoContinue ==
    /\ pc = "top"
    /\ quit = None
    /\ \E d \in Delays : adsb_airplanes' = Age(adsb_airplanes, d)
    /\ input' = << >>
    /\ last_read' = "eof"
    /\ last_frame' = None
    /\ last_key' = None
    /\ pruned' = {}
    /\ quit' = Some(QuitTcp)
    /\ pc' = "tui"
    /\ UNCHANGED << overflow_checks, raw_mode, printed, tab_selection,
                    settings, airplanes_state, coverage_airplanes, rows,
                    num_frames, num_reports >>

\* lines 163-175: no quit is pending and the read is zero-length
ReadClosed ==
    /\ pc = "top"
    /\ quit = None
    /\ \E d \in Delays : adsb_airplanes' = Age(adsb_airplanes, d)
    /\ input' = << >>
    /\ last_read' = "eof"
    /\ last_frame' = None
    /\ last_key' = None
    /\ pruned' = {}
    /\ quit' = Some(QuitTcp)
    /\ pc' = "top"
    /\ UNCHANGED << overflow_checks, raw_mode, printed, tab_selection,
                    settings, airplanes_state, coverage_airplanes, rows,
                    num_frames, num_reports >>

\* the lines whose bytes are handed to Frame::from_bytes
ReachesDecoder(line) ==
    LET hex == StripDelimiters(line)
    IN  IF hex = None THEN FALSE
        ELSE IF hex_decode(hex[1]) = None THEN FALSE
        ELSE ~AllZero(hex_decode(hex[1])[1])

IsReport(frame) ==
    /\ frame.df = "ADSB"
    /\ frame.me.kind # "Other"

\* lines 163-208: no quit is pending, a line arrives and is ingested; the
\* decoder answers with one of the frames offered
ReadLineWith(offered) ==
    /\ pc = "top"
    /\ quit = None
    /\ \E d \in Delays, line \in Lines :
       \E frame \in (IF ReachesDecoder(line) THEN offered ELSE {NoFrame}) :
          LET r == Ingest(Age(adsb_airplanes, d), line, frame)
              decoded == r.outcome \in {"Err", "NotADSB", "ADSB"}
          IN  /\ input' = line
              /\ adsb_airplanes' = r.store
              /\ pc' = r.pc
              /\ last_read' = r.outcome
              /\ last_frame' = IF decoded THEN Some(frame) ELSE None
              /\ num_frames' =
                    IF decoded /\ frame.df = "ADSB"
                    THEN [num_frames EXCEPT ![frame.icao] = @ + 1]
                    ELSE num_frames
              /\ num_reports' =
                    IF decoded /\ IsReport(frame)
                    THEN [num_reports EXCEPT ![frame.icao] = @ + 1]
                    ELSE num_reports
    /\ last_key' = None
    /\ pruned' = {}
    /\ UNCHANGED << overflow_checks, raw_mode, printed, quit, tab_selection,
                    settings, airplanes_state, coverage_airplanes, rows >>

\* the view is at an anchor and at the original scale
Unpanned(st) ==
    /\ st.scale = original_scale
    /\ [lat |-> st.lat, long |-> st.long] \in Anchors

\* Spec: an aircraft is heard when it is not tracked, with a position frame,
\* and while the view is neither panned nor zoomed
ReadLine ==
    ReadLineWith({f \in Frames :
        f.df = "ADSB" =>
            /\ f.icao \notin DOMAIN adsb_airplanes
            /\ f.me.kind = "AirbornePositionBaroAltitude"
            /\ Unpanned(settings)})

\* SpecFeed: one aircraft sends every kind of frame, the others only frames
\* of the ignored types, MaxMsgs per track
ReadLineFeed ==
    ReadLineWith({f \in Frames :
        f.df = "ADSB" =>
            /\ f.icao = 1 \/ f.me.kind = "Other"
            /\ EntryOrDefault(adsb_airplanes, f.icao).num_messages < MaxMsgs})

\* mutant: the history is replaced by this tick's positions
ExtendCoverage_Replaced(coverage, store) == all_lat_long_altitude(store)

\* lines 216-217: the coverage history takes every resolved position
ExtendCoverage(coverage, store) == coverage \o all_lat_long_altitude(store)

\* mutant: the call of prune is missing
PruneCall_Missing(store) == store

\* line 221: the tracks that timed out are removed
PruneCall(store) == prune(store, StalenessThreshold)

\* lines 252-260: what the render of a tab does to the table state; the Map
\* and Coverage tabs leave it alone
DrawTab(tab, store, selected) ==
    IF tab = "Airplanes"
    THEN LET c == ClampSelected(Len(keys(store)), selected)
         IN  [panic |-> c.panic, selected |-> c.selected, rows |-> keys(store)]
    ELSE [panic |-> FALSE, selected |-> selected, rows |-> << >>]

\* lines 210-262: coverage append, prune and the draw of the current tab
TuiDraw ==
    /\ pc = "tui"
    /\ Len(ExtendCoverage(coverage_airplanes, adsb_airplanes)) <= MaxCoverage
    /\ coverage_airplanes' = ExtendCoverage(coverage_airplanes, adsb_airplanes)
    /\ input' = << >>
    /\ adsb_airplanes' = PruneCall(adsb_airplanes)
    /\ pruned' = {[icao |-> a, position |-> adsb_airplanes[a].position] :
                    a \in (DOMAIN adsb_airplanes) \ (DOMAIN adsb_airplanes')}
    /\ num_frames' = [a \in Addresses |->
            IF a \in DOMAIN adsb_airplanes' THEN num_frames[a] ELSE 0]
    /\ num_reports' = [a \in Addresses |->
            IF a \in DOMAIN adsb_airplanes' THEN num_reports[a] ELSE 0]
    /\ LET d == DrawTab(tab_selection, adsb_airplanes', airplanes_state)
       IN  /\ rows' = d.rows
           /\ airplanes_state' = d.selected
           /\ pc' = IF d.panic THEN "panic" ELSE "poll"
    /\ last_read' = "none"
    /\ last_frame' = None
    /\ UNCHANGED << overflow_checks, raw_mode, printed, quit, tab_selection,
                    settings, last_key >>

\* line 265: poll times out, or the event is not a key
PollNone ==
    /\ pc = "poll"
    /\ pc' = "top"
    /\ UNCHANGED << overflow_checks, raw_mode, printed, input, quit,
                    tab_selection, settings, airplanes_state, adsb_airplanes,
                    coverage_airplanes, rows, last_read, last_frame, last_key,
                    pruned, num_frames, num_reports >>

\* lines 265-319: one key event is handled; the view is panned and zoomed
\* while no aircraft is tracked
PollKey ==
    /\ pc = "poll"
    /\ \E code \in KeyCodes :
          LET v == KeyEffect(code, ViewState, adsb_airplanes)
          IN  /\ SettingsInBounds(v.settings)
              /\ SelectedInBounds(v.selected)
              /\ Unpanned(v.settings) \/ adsb_airplanes = << >>
              /\ last_key' = Some(code)
              /\ tab_selection' = v.tab
              /\ quit' = v.quit
              /\ settings' = v.settings
              /\ airplanes_state' = v.selected
              /\ pc' = IF v.panic THEN "panic" ELSE "top"
    /\ UNCHANGED << overflow_checks, raw_mode, printed, input, adsb_airplanes,
                    coverage_airplanes, rows, last_read, last_frame, pruned,
                    num_frames, num_reports >>

Next ==
    \/ LoopExit
    \/ ReadTimeout
    \/ ReadClosed
    \/ ReadLine
    \/ TuiDraw
    \/ PollNone
    \/ PollKey

Spec == Init /\ [][Next]_vars

NextFeed ==
    \/ LoopExit
    \/ ReadTimeout
    \/ ReadClosed
    \/ ReadLineFeed
    \/ TuiDraw
    \/ PollNone

SpecFeed == Init /\ [][NextFeed]_vars

\* -------------------------------------------------------------- projection
\* lines 558-565: lat_diff = scale, long_diff = lat_diff * 3.0
scale_lat_long(scale) ==
    [lat_diff |-> scale, long_diff |-> F64Round(Times(3, scale))]

\* mutant: the operands of the subtraction are swapped
Coord_Mirrored(p, local, diff) ==
    [num |-> F64Sub(local, p), den |-> diff]

\* lines 351-352, 412-413, 539-540: ((p - local) / diff) * MAX_PLOT_HIGH.  The
\* difference is computed; the quotient and its product by MAX_PLOT_HIGH =
\* 400.0 are kept as the pair of numerator and denominator, which decides
\* whether the coordinate is zero and how two coordinates compare
Coord(p, local, diff) ==
    [num |-> F64Sub(p, local), den |-> diff]

\* the coordinate is 0.0; 0.0 / 0.0 is not
CoordIsZero(c) == IsZero(c.num) /\ ~IsZero(c.den)

\* c1 < c2, for two coordinates over the same denominator; nothing compares
\* over a zero denominator
CoordLt(c1, c2) ==
    IF IsZero(c1.den) THEN FALSE
    ELSE IF c1.den.neg THEN F64Gt(c1.num, c2.num)
    ELSE F64Gt(c2.num, c1.num)

\* mutant: the points are drawn relative to the antenna position
project_FromHome(point, reference, scale) ==
    LET d == scale_lat_long(scale)
    IN  [x |-> Coord(point.longitude, OptsLong, d.long_diff),
         y |-> Coord(point.latitude, OptsLat, d.lat_diff)]

\* the point drawn for a position: coords (long, lat) relative to the centre
\* of the view
project(point, reference, scale) ==
    LET d == scale_lat_long(scale)
    IN  [x |-> Coord(point.longitude, reference.long, d.long_diff),
         y |-> Coord(point.latitude, reference.lat, d.lat_diff)]

\* ------------------------------------------------------------------ claims
TrackCount == Len(keys(adsb_airplanes))

Min(a, b) == IF a < b THEN a ELSE b
Max(a, b) == IF a > b THEN a ELSE b

\* a track's fields other than its idle time
Report(tr) ==
    << tr.num_messages, tr.callsign, tr.speed, tr.vert_speed, tr.position >>

\* the step changed no track: same addresses, same counts and fields
SameTracks ==
    /\ DOMAIN adsb_airplanes' = DOMAIN adsb_airplanes
    /\ \A a \in DOMAIN adsb_airplanes :
          Report(adsb_airplanes'[a]) = Report(adsb_airplanes[a])

\* C1: whenever the key handler can read the cursor on the Airplanes tab, the
\* cursor is unset or an index below the track count, so the row lookup of
\* 'confirm' succeeds
C1_CursorValidAtConfirm ==
    (pc = "poll" /\ tab_selection = "Airplanes") =>
        IF airplanes_state = None THEN TRUE
        ELSE airplanes_state[1] < TrackCount

\* C2: on the Airplanes tab an up or down key on a valid cursor moves it by
\* one within [0, track_count - 1] once the table's range check has run: up at
\* row 0 stays at row 0, down at the last row stays at the last row
C2_MoveClamped ==
    [][ IF /\ pc = "poll"
           /\ tab_selection = "Airplanes"
           /\ last_key' \in {Some("Up"), Some("Down")}
           /\ airplanes_state # None
        THEN IF airplanes_state[1] >= TrackCount THEN TRUE
             ELSE /\ pc' # "panic"
                  /\ airplanes_state' # None
                  /\ Min(airplanes_state'[1], TrackCount - 1) =
                        IF last_key' = Some("Up")
                        THEN Max(airplanes_state[1] - 1, 0)
                        ELSE Min(airplanes_state[1] + 1, TrackCount - 1)
        ELSE TRUE ]_vars

\* C3: when the prune of a tick shrinks the table from M to N rows, the render
\* of the Airplanes tab turns a cursor >= N into N - 1 if N > 0, clears it if
\* N = 0, and leaves a cursor < N alone
C3_PruneClampsCursor ==
    [][ IF pc = "tui" /\ tab_selection = "Airplanes" /\ airplanes_state # None
        THEN LET m == Len(keys(adsb_airplanes))
                 n == Len(keys(adsb_airplanes'))
                 s == airplanes_state[1]
             IN  n < m =>
                    /\ pc' # "panic"
                    /\ airplanes_state' =
                          IF s < n THEN airplanes_state
                          ELSE IF n > 0 THEN Some(n - 1)
                          ELSE None
        ELSE TRUE ]_vars

\* C4: between the render and the key handling of a tick the track store is
\* not modified, and 'confirm' on row N of the Airplanes tab jumps to the
\* position of the address drawn at row N: the centre becomes that position
\* and the tab becomes Map
C4_ConfirmJumpsToDrawnRow ==
    [][ IF pc = "poll" /\ tab_selection = "Airplanes"
        THEN /\ rows = keys(adsb_airplanes)
             /\ adsb_airplanes' = adsb_airplanes
             /\ IF /\ last_key' = Some("Enter")
                   /\ airplanes_state # None
                THEN IF airplanes_state[1] >= Len(rows) THEN TRUE
                     ELSE LET drawn == rows[airplanes_state[1] + 1]
                              pos == adsb_airplanes[drawn].position
                          IN  pos # None =>
                                 /\ settings'.lat = pos[1].latitude
                                 /\ settings'.long = pos[1].longitude
                                 /\ tab_selection' = "Map"
                ELSE TRUE
        ELSE TRUE ]_vars

\* C4 witness: a jump from the second row of the table has happened
C4_Witness ==
    /\ pc = "top"
    /\ last_key = Some("Enter")
    /\ tab_selection = "Map"
    /\ Len(rows) = 2
    /\ airplanes_state = Some(1)
    /\ adsb_airplanes[rows[1]].position = None
    /\ settings.lat # OptsLat

\* C5: 'confirm' on the Airplanes tab with no row selected, or with a selected
\* track that has no resolved position, changes neither the tab, nor the
\* centre, nor the scale, nor the cursor
C5_ConfirmWithoutPosition ==
    [][ IF /\ pc = "poll"
           /\ tab_selection = "Airplanes"
           /\ last_key' = Some("Enter")
        THEN LET unresolved ==
                    IF airplanes_state = None THEN TRUE
                    ELSE IF airplanes_state[1] >= TrackCount THEN FALSE
                    ELSE adsb_airplanes[keys(adsb_airplanes)
                            [airplanes_state[1] + 1]].position = None
             IN  unresolved =>
                    /\ pc' = "top"
                    /\ tab_selection' = tab_selection
                    /\ settings' = settings
                    /\ airplanes_state' = airplanes_state
        ELSE TRUE ]_vars

\* C5 witness: 'confirm' was pressed on a selected track without a position
C5_Witness ==
    /\ pc = "top"
    /\ last_key = Some("Enter")
    /\ tab_selection = "Airplanes"
    /\ airplanes_state # None
    /\ TrackCount > 0

C7_PruneExact ==
    [][ IF pc = "tui"
        THEN /\ DOMAIN adsb_airplanes' =
                    {a \in DOMAIN adsb_airplanes :
                        adsb_airplanes[a].idle <= StalenessThreshold}
             /\ \A a \in DOMAIN adsb_airplanes' :
                    adsb_airplanes'[a] = adsb_airplanes[a]
             /\ IF last_frame = None THEN TRUE
                ELSE last_frame[1].df = "ADSB" =>
                        last_frame[1].icao \in DOMAIN adsb_airplanes'
        ELSE TRUE ]_vars

\* C7 witness: a prune removed one track and kept another, just refreshed
C7_Witness ==
    /\ pc = "poll"
    /\ pruned # {}
    /\ \E a \in DOMAIN adsb_airplanes :
          adsb_airplanes[a].idle = 0 /\ adsb_airplanes[a].num_messages = 2

\* the line is a delimiter pair around an even number of "0" digits
IsZeroLine(line) ==
    /\ Len(line) >= 3
    /\ (Len(line) - 3) % 2 = 0
    /\ \A i \in 2..(Len(line) - 2) : line[i] = "0"

\* C8: a line whose payload decodes to zero bytes only changes no track
C8_ZeroPayloadNoUpdate ==
    [][ (pc = "top" /\ quit = None /\ IsZeroLine(input')) =>
            (SameTracks /\ num_frames' = num_frames) ]_vars

\* C8 witness: a two-byte all-zero payload was read while a track existed
C8_Witness ==
    /\ pc = "top"
    /\ input = Wrap(<< "0", "0", "0", "0" >>)
    /\ adsb_airplanes # << >>

\* C9: a non-empty line that yields no ADS-B report is skipped: no abort, no
\* quit reason, no change of the tracks
C9_BadLineSkipped ==
    [][ IF pc = "top" /\ quit = None /\ input' # << >>
        THEN LET usable == IF last_frame' = None THEN FALSE
                           ELSE last_frame'[1].df = "ADSB"
             IN  ~usable => (pc' # "panic" /\ quit' = None /\ SameTracks)
        ELSE TRUE ]_vars

\* C10: the loop exits only with a quit reason, which it prints; a quit reason
\* is raised only by the quit key or by a zero-length read; and once one is
\* raised the next step is the exit, with tracks, coverage history, table and
\* view state untouched
C10_ExitOnlyOnQuit ==
    [][ /\ (pc' = "done" /\ pc # "done") => (quit # None /\ printed' = quit)
        /\ quit # None =>
              /\ pc' = "done"
              /\ UNCHANGED << adsb_airplanes, coverage_airplanes, rows,
                              tab_selection, settings, airplanes_state, quit >>
        /\ quit' # quit =>
              /\ quit = None
              /\ \/ quit' = Some(QuitUser) /\ last_key' = Some("q")
                 \/ quit' = Some(QuitTcp) /\ last_read' = "eof" ]_vars

\* C10 witness: the loop has exited on the quit key with an aircraft tracked
C10_Witness ==
    /\ pc = "done"
    /\ printed = Some(QuitUser)
    /\ adsb_airplanes # << >>

\* C11: when the loop has exited, on either quit condition, the raw mode
\* enabled at startup is no longer enabled
C11_TerminalRestoredOnExit ==
    pc = "done" => ~raw_mode

\* the tab that follows in the order Map, Coverage, Airplanes, Map
C12_Following(tab) ==
    IF tab = "Map" THEN "Coverage"
    ELSE IF tab = "Coverage" THEN "Airplanes"
    ELSE "Map"

\* C12: the cycle-tab key steps Map to Coverage, Coverage to Airplanes and
\* Airplanes to Map, three presses in a row come back to the starting tab, and
\* the key changes neither the settings nor the cursor; F1, F2 and F3 set the
\* tab to Map, Coverage and Airplanes from any tab
C12_TabKeys ==
    [][ IF pc = "poll" /\ last_key' # None
        THEN LET once == KeyEffect("Tab", ViewState, adsb_airplanes)
                 twice == KeyEffect("Tab", once, adsb_airplanes)
                 thrice == KeyEffect("Tab", twice, adsb_airplanes)
             IN  /\ last_key' = Some("Tab") =>
                       /\ tab_selection' = C12_Following(tab_selection)
                       /\ settings' = settings
                       /\ airplanes_state' = airplanes_state
                       /\ pc' = "top"
                       /\ thrice = ViewState
                 /\ last_key' = Some("F1") => tab_selection' = "Map"
                 /\ last_key' = Some("F2") => tab_selection' = "Coverage"
                 /\ last_key' = Some("F3") => tab_selection' = "Airplanes"
        ELSE TRUE ]_vars

\* C12 witness: the cycle-tab key has stepped from the Airplanes tab, where a
\* row was selected, to the Map tab
C12_Witness ==
    /\ pc = "top"
    /\ last_key = Some("Tab")
    /\ tab_selection = "Map"
    /\ airplanes_state # None

\* the tracks of the store that have a resolved position
C13_Resolved(store) == {a \in DOMAIN store : store[a].position # None}

\* C13: no step removes or changes a sample of the coverage history, and the
\* coverage step of a tick appends one sample, the position, for each track
\* that has a resolved position before the tick's prune
C13_CoverageGrows ==
    [][ LET old == Len(coverage_airplanes)
            new == Len(coverage_airplanes')
        IN  /\ new >= old
            /\ SubSeq(coverage_airplanes', 1, old) = coverage_airplanes
            /\ IF pc = "tui"
               THEN /\ new = old + Cardinality(C13_Resolved(adsb_airplanes))
                    /\ \A a \in C13_Resolved(adsb_airplanes) :
                          \E i \in (old + 1)..new :
                             coverage_airplanes'[i] =
                                adsb_airplanes[a].position[1]
               ELSE new = old ]_vars

\* C13 witness: a tick has pruned a track that had a resolved position, after
\* earlier samples were taken
C13_Witness ==
    /\ pc = "poll"
    /\ \E t \in pruned : t.position # None
    /\ Len(coverage_airplanes) >= 2

\* the centre of the view as a point
C14_Centre(st) == [latitude |-> st.lat, longitude |-> st.long]

C14_AtOrigin(pt) == CoordIsZero(pt.x) /\ CoordIsZero(pt.y)

\* C14: the centre of the view is projected to (0, 0) at the scale of the
\* view, with lat_diff the scale and long_diff three times the scale, and
\* right after a 'confirm' jump (the table was drawn, Enter was pressed and
\* the tab is Map) the selected track is projected to (0, 0)
C14_ReferenceAtOrigin ==
    /\ C14_AtOrigin(project(C14_Centre(settings), settings, settings.scale))
    /\ scale_lat_long(settings.scale).lat_diff = settings.scale
    /\ scale_lat_long(settings.scale).long_diff =
          F64Add(F64Add(settings.scale, settings.scale), settings.scale)
    /\ IF /\ pc = "top"
          /\ last_key = Some("Enter")
          /\ tab_selection = "Map"
          /\ rows # << >>
       THEN C14_AtOrigin(project(
                adsb_airplanes[rows[airplanes_state[1] + 1]].position[1],
                settings, settings.scale))
       ELSE TRUE

\* C14 witness: a 'confirm' jump has moved the centre to a track's position
C14_Witness ==
    /\ pc = "top"
    /\ last_key = Some("Enter")
    /\ \E a \in DOMAIN adsb_airplanes :
          /\ adsb_airplanes[a].position # None
          /\ settings.lat = adsb_airplanes[a].position[1].latitude
          /\ settings.long = adsb_airplanes[a].position[1].longitude

\* the points on the plot: the antenna, the known positions and the centre
C15_Points ==
    {[latitude |-> a.lat, longitude |-> a.long] : a \in Anchors}
        \cup {[latitude |-> settings.lat, longitude |-> settings.long]}

\* the scales the scale of the view is compared with
C15_Scales ==
    {original_scale, ScaleStep, F64Add(settings.scale, ScaleStep)}

\* the sign of c1 - c2
C15_Sign(c1, c2) ==
    IF CoordLt(c1, c2) THEN 0 - 1 ELSE IF CoordLt(c2, c1) THEN 1 ELSE 0

C16_FixedSequence ==
    [][ /\ (pc = "top" /\ quit = None /\ last_read' # "eof") => pc' = "tui"
        /\ pc = "tui" =>
              /\ pc' = "poll"
              /\ coverage_airplanes' =
                    coverage_airplanes \o all_lat_long_altitude(adsb_airplanes)
              /\ adsb_airplanes' = prune(adsb_airplanes, StalenessThreshold)
      ]_vars

\* the loop keeps running: whenever it can take a step it eventually does.
\* What the feed and the keyboard deliver is not constrained
SpecLive == Spec /\ WF_vars(Next)

\* C17: whatever the feed delivers, the loop does not stay in the feed read
\* for ever: it always gets on to the prune, the render and the poll of the
\* keyboard (or the session has ended)
C17_PollNotStarved ==
    []<>(pc # "top")

\* C18: the scale is strictly positive and never below the floor 0.2
C18_ScaleAboveFloor ==
    /\ ~settings.scale.neg
    /\ ~IsZero(settings.scale)
    /\ ~F64Gt(ScaleFloor, settings.scale)

\* C19: 'reset view' on the Map or Coverage tab sets the centre to the
\* antenna position 64.0, -74.0 and the scale to 1.2, the initial settings,
\* and changes neither the tab nor the cursor
C19_ResetView ==
    [][ IF /\ pc = "poll"
           /\ tab_selection \in {"Map", "Coverage"}
           /\ last_key' = Some("Enter")
        THEN /\ settings'.lat = F64(FALSE, 256, 0, 0)
             /\ settings'.long = F64(TRUE, 296, 0, 0)
             /\ settings'.scale = F64(FALSE, 4, 429496729, 322122496)
             /\ tab_selection' = tab_selection
             /\ airplanes_state' = airplanes_state
             /\ pc' = "top"
        ELSE TRUE ]_vars

\* C19 witness: the view has been reset on the Coverage tab while an aircraft
\* with a position is tracked and a row is selected
C19_Witness ==
    /\ pc = "top"
    /\ last_key = Some("Enter")
    /\ tab_selection = "Coverage"
    /\ airplanes_state # None
    /\ \E a \in DOMAIN adsb_airplanes : adsb_airplanes[a].position # None
    /\ settings = [scale |-> original_scale, lat |-> OptsLat, long |-> OptsLong]

\* the key that pans the opposite way
C20_Opposite(code) ==
    CASE code = "Up" -> "Down"
      [] code = "Down" -> "Up"
      [] code = "Left" -> "Right"
      [] code = "Right" -> "Left"

====
